---------------------------- MODULE Spec2Model ----------------------------
(***************************************************************************)
(* A model of the LocalSocket event hub of src/src/index.ts: the listener  *)
(* registry (callbacks), the key map (keys), the quota table (events), the *)
(* ceilings, the connected flag, and the operations on, onOrderOf, once,   *)
(* onceOrderOf, emit, reOn, remove/off, connect, disconnect, drop,         *)
(* limitConnections and setEventMaxListener.                               *)
(*                                                                         *)
(* JavaScript strings are modelled as sequences of one-character strings,  *)
(* so that trim, join, includes and startsWith are computed on characters  *)
(* as the code computes them.  Listener objects live in a heap (objs): the *)
(* registry and the key map hold references to the same object, and reOn   *)
(* can put one object into the registry more than once.                    *)
(*                                                                         *)
(* randomSequentialId (line 9) is modelled as a source of fresh keys: the  *)
(* specification treats the id source as an external collaborator that     *)
(* issues distinct keys.                                                   *)
(*                                                                         *)
(* Emit and Connect run the loop of emit in one step, for callbacks that   *)
(* do not call the hub back.  NestedVisit and NestedReturn run it one      *)
(* listener at a time on a stack of calls, for callbacks that announce or  *)
(* register while they run.                                                *)
(***************************************************************************)
EXTENDS Integers, Sequences, FiniteSets, TLC

(***************************************************************************)
(* Bounds of the model.                                                    *)
(***************************************************************************)
\* registrations that may succeed in one behaviour of Spec
MaxKeys == 2
\* registrations that may succeed in one behaviour of SpecQuota
MaxQuotaKeys == 3
\* largest value handed to limitConnections
MaxCeiling == 3
\* registrations that may succeed in one behaviour of SpecLife
MaxLifeKeys == 2
\* largest value handed to setEventMaxListener
MaxEventCeiling == 1
\* the registry holds at most this many references in Spec
MaxRegistry == 3
\* cap on a listener's callsCount (emit is disabled beyond it)
MaxCalls == 2
\* calls of emit nested at most this deep in SpecNested
MaxDepth == 3
\* registrations that may succeed in one behaviour of SpecNested
MaxNestedKeys == 2
\* the registry holds at most this many references in SpecNested
MaxNestedRegistry == 2

(***************************************************************************)
(* Strings.                                                                *)
(***************************************************************************)
SP == " "
sA == <<"a">>
sB == <<"b">>
sC == <<"c">>
sAB == <<"a", "b">>
sConnect == <<"c", "o", "n", "n", "e", "c", "t">>
sDisconnect == <<"d", "i", "s">> \o sConnect
sCount == <<"c", "o", "u", "n", "t">>
Empty == <<>>

\* String.prototype.trim: strips the spaces at both ends
RECURSIVE TrimLeft(_)
TrimLeft(s) == IF s # <<>> /\ Head(s) = SP THEN TrimLeft(Tail(s)) ELSE s

RECURSIVE TrimRight(_)
TrimRight(s) ==
  IF s # <<>> /\ s[Len(s)] = SP THEN TrimRight(SubSeq(s, 1, Len(s) - 1)) ELSE s

Trim(s) == TrimRight(TrimLeft(s))

\* Array.prototype.join(" ")
RECURSIVE Join(_)
Join(ss) ==
  IF ss = <<>> THEN <<>>
  ELSE IF Len(ss) = 1 THEN ss[1]
  ELSE ss[1] \o <<SP>> \o Join(Tail(ss))

\* String.prototype.startsWith
StartsWith(s, t) == Len(t) <= Len(s) /\ SubSeq(s, 1, Len(t)) = t

\* String.prototype.includes: t occurs in s as a run of consecutive characters
Includes(s, t) ==
  \E i \in 0..(Len(s) - Len(t)) : SubSeq(s, i + 1, i + Len(t)) = t

\* registered + ` ${event}` (template literal concatenation)
Concat(reg, e) == reg \o <<SP>> \o e


(***************************************************************************)
(* Values.                                                                 *)
(***************************************************************************)
\* `undefined` for a ceiling: the code only tests ceilings for truthiness
Undefined == 0
\* the `key` field of an object built without one
NoKey == 0
\* an empty object literal {} (also the absent sink: spreading it adds nothing)
EmptyMap == [n \in {} |-> ""]
\* payloads a caller announces
Payloads == {"p1", "p2"}
\* the argument connect() announces: {connectionId, connections, connected: true}
ConnectInfo == "{connectionId,connections,connected:true}"
\* the argument disconnect() announces: {connectionId, connections, connected: false}
DisconnectInfo == "{connectionId,connections,connected:false}"

\* the four register operations: callType and order of the object each builds
Kinds == {"on", "onOrderOf", "once", "onceOrderOf"}
CallTypeOf(kind) == IF kind \in {"on", "onOrderOf"} THEN "on" ELSE "once"
OrderOf(kind) == IF kind \in {"on", "once"} THEN "loose" ELSE "strict"

\* the `event` argument of a register call: a scalar name or an array of names
Scalar(e) == [list |-> FALSE, names |-> <<e>>]
List(es) == [list |-> TRUE, names |-> es]

\* ([] as EventType[]).concat(event).map(e => String(e).trim())
RECURSIVE MapTrim(_)
MapTrim(es) == IF es = <<>> THEN <<>> ELSE <<Trim(Head(es))>> \o MapTrim(Tail(es))

\* the `event` field of the listener object
EventField(ev) == IF ev.list THEN Join(MapTrim(ev.names)) ELSE ev.names[1]

\* stringigiedEvent: the key of the quota table
Stringified(ev) == Join(ev.names)

\* {...obj, [name]: value}
Put(map, name, value) ==
  [n \in DOMAIN map \cup {name} |-> IF n = name THEN value ELSE map[n]]

\* what a callback function does when it is invoked: nothing, or one call of
\* this.emit(name, payload), or one call of this.on(name, () => {})
Noop == [do |-> "nothing", name |-> Empty]
Announces(e) == [do |-> "emit", name |-> e]
Registers(e) == [do |-> "on", name |-> e]

\* the listener object a register call builds; onOrderOf builds it without `key`
NewObj(kind, ev, key) ==
  [event |-> EventField(ev),
   cb |-> Noop,
   key |-> IF kind = "onOrderOf" THEN NoKey ELSE key,
   callType |-> CallTypeOf(kind),
   callsCount |-> 0,
   isTrainOfEvent |-> ev.list,
   eventCount |-> IF ev.list THEN Len(ev.names) ELSE 0,
   order |-> IF ev.list THEN OrderOf(kind) ELSE "none",
   registered |-> Empty,
   sink |-> EmptyMap,
   called |-> FALSE]

(***************************************************************************)
(* State.                                                                  *)
(***************************************************************************)
VARIABLES
  callbacks,     \* this.callbacks: the registry, a sequence of object references
  objs,          \* the heap: reference -> listener object
  keys,          \* this.keys: key -> object reference
  events,        \* this.events: pattern string -> [maxListeners, count]
  maxListeners,  \* this.maxListeners
  connected,     \* this.connected
  nextKey,       \* the next key randomSequentialId issues
  last,          \* the last operation: its name, arguments and outcome
  invoked,       \* the callback invocations of the last operation, in order
  recent,        \* the last delivered announces since the registry changed
  phase,         \* key -> what remove and reOn last did with it
  stack,         \* the calls of emit in progress, outermost first
  total          \* listener -> how often its callback was invoked in all

vars == <<callbacks, objs, keys, events, maxListeners, connected, nextKey,
          last, invoked, recent, phase, stack, total>>
hub == <<callbacks, objs, keys, events, maxListeners, connected, nextKey>>

\* the record of an operation: its name; the pattern string or event name it
\* was given; the payload; the key it was given or returned (0: none); whether
\* it threw
Op(name) == [op |-> name, name |-> Empty, args |-> "", key |-> 0, threw |-> FALSE]

(***************************************************************************)
(* validate (lines 81-116).                                                *)
(***************************************************************************)
\* x >= n in JavaScript for x a number, undefined or an object: only a number
\* compares; undefined and a plain object convert to NaN and compare false
JsGE(x, n) == x.t = "number" /\ x.v >= n

\* this.events.count: the quota entry of the pattern named "count", if any
EventsCount ==
  IF sCount \in DOMAIN events THEN [t |-> "object", v |-> 0]
  ELSE [t |-> "undefined", v |-> 0]

\* the global check with > in place of >=
GlobalLimitExceeded ==
  maxListeners # Undefined /\ Len(callbacks) > maxListeners

GlobalLimitReached ==
  maxListeners # Undefined /\ Len(callbacks) >= maxListeners

EventLimitReached(ev) ==
  \E i \in 1..Len(ev.names) :
    /\ ev.names[i] \in DOMAIN events
    /\ events[ev.names[i]].maxListeners # Undefined
    /\ JsGE(EventsCount, events[ev.names[i]].maxListeners)

\* TRUE when validate throws; otherwise it returns true, connected or not
ValidateThrows(ev) == GlobalLimitReached \/ EventLimitReached(ev)

(***************************************************************************)
(* emit (lines 338-400): the body of the loop for one listener object c.   *)
(***************************************************************************)
\* String(c.registered + ` ${String(event)}`).trim()
Candidate(c, event) == Trim(Concat(c.registered, event))

\* lines 351-353
EventMatch(c, event) ==
  IF ~c.isTrainOfEvent THEN c.event = event ELSE Candidate(c, event) = c.event

\* lines 355-368: a strict train drops its progress when the candidate run is
\* not a substring of its pattern string
StrictReset(c, event) ==
  IF /\ c.isTrainOfEvent
     /\ c.order = "strict"
     /\ ~EventMatch(c, event)
     /\ ~Includes(c.event, Candidate(c, event))
  THEN [c EXCEPT !.sink = EmptyMap, !.registered = Empty]
  ELSE c

\* the argument handed to the callback (lines 372 and 378)
CallArg(c, event, args) ==
  IF c.isTrainOfEvent
  THEN [raw |-> FALSE, val |-> "", map |-> Put(c.sink, event, args)]
  ELSE [raw |-> TRUE, val |-> args, map |-> EmptyMap]

\* lines 370-380: whether the callback is invoked (callable is always true and
\* cb is always a function, lines 163-164)
Fires(c, match) ==
  match /\ (c.callType = "on" \/ (c.callType = "once" /\ ~c.called))

\* lines 370-380: the bookkeeping of an invocation
AfterCall(c, match) ==
  IF ~match THEN c
  ELSE IF c.callType = "on"
       THEN [c EXCEPT !.callsCount = @ + 1, !.sink = EmptyMap]
  ELSE IF c.callType = "once" /\ ~c.called
       THEN [c EXCEPT !.called = TRUE, !.callsCount = @ + 1]
  ELSE c

\* Progress with the separator forgotten when the run is extended
ProgressNoSeparator(c, match, event, args) ==
  IF ~match /\ c.isTrainOfEvent
  THEN LET c1 == IF Includes(c.event, event)
                 THEN [c EXCEPT !.sink = Put(c.sink, event, args)]
                 ELSE c
       IN  IF c1.registered = Empty
           THEN IF StartsWith(c1.event, event)
                THEN [c1 EXCEPT !.registered = Trim(event)]
                ELSE c1
           ELSE IF Includes(c1.event, Concat(c1.registered, event))
                THEN [c1 EXCEPT !.registered = c1.registered \o Trim(event)]
                ELSE c1
  ELSE IF c.isTrainOfEvent
  THEN [c EXCEPT !.sink = EmptyMap, !.registered = Empty]
  ELSE c

\* lines 382-398: the progress of a train after the announce
Progress(c, match, event, args) ==
  IF ~match /\ c.isTrainOfEvent
  THEN LET c1 == IF Includes(c.event, event)
                 THEN [c EXCEPT !.sink = Put(c.sink, event, args)]
                 ELSE c
           currentRegister == c1.registered
           firstRegister == c1.registered = Empty
       IN  IF firstRegister
           THEN IF StartsWith(c1.event, event)
                THEN [c1 EXCEPT !.registered = Trim(event)]
                ELSE c1
           ELSE IF Includes(c1.event, Concat(currentRegister, event))
                THEN [c1 EXCEPT !.registered = Concat(currentRegister, Trim(event))]
                ELSE c1
  ELSE IF c.isTrainOfEvent
  THEN [c EXCEPT !.sink = EmptyMap, !.registered = Empty]
  ELSE c

\* one pass of the loop body: the object afterwards and the invocations made
Visit(c, event, args) ==
  LET match == EventMatch(c, event)
      c1 == StrictReset(c, event)
      c2 == AfterCall(c1, match)
  IN  [obj |-> Progress(c2, match, event, args),
       calls |-> IF Fires(c1, match) THEN <<CallArg(c1, event, args)>> ELSE <<>>]

\* for (const c of this.callbacks): the heap and the invocation log after the
\* listeners from position i on have been visited, in registry order
RECURSIVE Dispatch(_, _, _, _, _, _)
Dispatch(cbs, heap, log, i, event, args) ==
  IF i > Len(cbs) THEN [objs |-> heap, log |-> log]
  ELSE LET r == Visit(heap[cbs[i]], event, args)
           calls == [j \in 1..Len(r.calls) |->
                       [id |-> cbs[i], arg |-> r.calls[j]]]
       IN  Dispatch(cbs, [heap EXCEPT ![cbs[i]] = r.obj], log \o calls,
                    i + 1, event, args)

\* emit(event, args) on a connected hub
Emitted(event, args) == Dispatch(callbacks, objs, <<>>, 1, event, args)

(***************************************************************************)
(* Operations.  Each takes the inputs of the call; a register call also    *)
(* takes the bound on the keys issued in the behaviour.                    *)
(***************************************************************************)
\* the string of a key, as remove uses it to index the quota table
KeyString(key) == <<"#", ToString(key)>>

\* parseInt(String(value)) of an integer-valued number
ParseInt(value) == value

\* the quota table after a registration of ev (lines 180-186)
Counted(ev) ==
  LET p == Stringified(ev)
  IN  [q \in DOMAIN events \cup {p} |->
         IF q # p THEN events[q]
         ELSE IF p \in DOMAIN events
              THEN [events[p] EXCEPT !.count = @ + 1]
              ELSE [maxListeners |-> Undefined, count |-> 1]]

\* on / onOrderOf / once / onceOrderOf (lines 150-333)
Register(kind, ev, maxKeys) ==
  /\ IF ValidateThrows(ev)
     THEN /\ last' = [Op("register") EXCEPT !.name = Stringified(ev),
                                            !.threw = TRUE]
          /\ UNCHANGED hub
     ELSE /\ nextKey <= maxKeys
          /\ callbacks' = Append(callbacks, nextKey)
          /\ objs' = Put(objs, nextKey, NewObj(kind, ev, nextKey))
          /\ keys' = Put(keys, nextKey, nextKey)
          /\ events' = Counted(ev)
          /\ nextKey' = nextKey + 1
          /\ last' = [Op("register") EXCEPT !.name = Stringified(ev),
                                            !.key = nextKey]
          /\ UNCHANGED <<maxListeners, connected>>
  /\ invoked' = <<>>
  /\ recent' = <<>>
  /\ UNCHANGED <<phase, stack, total>>

\* the patterns of the trains SpecSeq registers
SeqPatterns == {<<sAB, sC>>, <<sA, sB, sC>>}

\* `recent` keeps as many announces as the longest of these patterns has names
RunLength == CHOOSE n \in 1..8 : /\ \A p \in SeqPatterns : Len(p) <= n
                                 /\ \E p \in SeqPatterns : Len(p) = n

\* the record of a delivered announce: what was announced, which listeners
\* it invoked, and which listeners had no progress before it
Announce(event, args, log) ==
  [event |-> event, args |-> args,
   fired |-> {log[j].id : j \in 1..Len(log)},
   idle |-> {callbacks[i] : i \in {j \in 1..Len(callbacks) :
                                     objs[callbacks[j]].registered = Empty}}]

Remember(event, args, log) ==
  LET all == Append(recent, Announce(event, args, log))
  IN  IF Len(all) > RunLength THEN Tail(all) ELSE all

\* emit (lines 338-400); track says whether `recent` is kept
Emit(event, args, track) ==
  /\ last' = [Op("emit") EXCEPT !.name = event, !.args = args]
  /\ IF ~connected
     THEN /\ invoked' = <<>>
          /\ UNCHANGED <<objs, recent>>
     ELSE LET r == Emitted(event, args)
          IN  /\ \A k \in DOMAIN r.objs : r.objs[k].callsCount <= MaxCalls
              /\ objs' = r.objs
              /\ invoked' = r.log
              /\ recent' = IF track THEN Remember(event, args, r.log) ELSE <<>>
  /\ UNCHANGED <<callbacks, keys, events, maxListeners, connected, nextKey, phase>>
  /\ UNCHANGED <<stack, total>>

\* reOn (lines 413-418); maxLen bounds the length of the registry
ReOn(key, maxLen) ==
  /\ key \in DOMAIN keys => Len(callbacks) < maxLen
  /\ callbacks' = IF key \in DOMAIN keys THEN Append(callbacks, keys[key])
                  ELSE callbacks
  /\ phase' = IF key \notin DOMAIN keys THEN phase
               ELSE IF key \in DOMAIN phase /\ phase[key] = "removed"
                    THEN Put(phase, key, "resumed")
                    ELSE Put(phase, key, "added again")
  /\ last' = [Op("reOn") EXCEPT !.key = key]
  /\ invoked' = <<>>
  /\ recent' = <<>>
  /\ UNCHANGED <<objs, keys, events, maxListeners, connected, nextKey>>
  /\ UNCHANGED <<stack, total>>

\* this.callbacks.filter(cb => cb.key !== key)
RECURSIVE FilterOut(_, _)
FilterOut(cbs, key) ==
  IF cbs = <<>> THEN <<>>
  ELSE IF objs[Head(cbs)].key # key
       THEN <<Head(cbs)>> \o FilterOut(Tail(cbs), key)
       ELSE FilterOut(Tail(cbs), key)

\* remove / off (lines 405-407, 438-446)
Remove(key) ==
  /\ IF key \in DOMAIN keys
     THEN /\ events' = [p \in DOMAIN events \ {KeyString(key)} |-> events[p]]
          /\ callbacks' = FilterOut(callbacks, key)
     ELSE UNCHANGED <<events, callbacks>>
  /\ phase' = IF key \in DOMAIN keys THEN Put(phase, key, "removed") ELSE phase
  /\ last' = [Op("remove") EXCEPT !.key = key]
  /\ invoked' = <<>>
  /\ recent' = <<>>
  /\ UNCHANGED <<objs, keys, maxListeners, connected, nextKey>>
  /\ UNCHANGED <<stack, total>>

\* connect (lines 419-426)
Connect(track) ==
  LET r == Emitted(sConnect, ConnectInfo)
  IN  /\ \A k \in DOMAIN r.objs : r.objs[k].callsCount <= MaxCalls
      /\ connected' = TRUE
      /\ objs' = r.objs
      /\ invoked' = r.log
      /\ recent' = IF track THEN Remember(sConnect, ConnectInfo, r.log) ELSE <<>>
      /\ last' = [Op("connect") EXCEPT !.name = sConnect, !.args = ConnectInfo]
      /\ UNCHANGED <<callbacks, keys, events, maxListeners, nextKey, phase>>
      /\ UNCHANGED <<stack, total>>

\* disconnect (lines 428-436): the flag is cleared before emit is called, so
\* emit discards the `disconnect` announce
Disconnect ==
  /\ IF ~connected
     THEN /\ last' = Op("disconnect")
          /\ UNCHANGED connected
     ELSE /\ connected' = FALSE
          /\ last' = [Op("disconnect") EXCEPT !.name = sDisconnect,
                                              !.args = DisconnectInfo]
  /\ invoked' = <<>>
  /\ recent' = <<>>
  /\ UNCHANGED <<callbacks, objs, keys, events, maxListeners, nextKey, phase>>
  /\ UNCHANGED <<stack, total>>

\* drop with the commented-out line 452 active
DropResetsCeiling ==
  /\ keys' = EmptyMap
  /\ callbacks' = <<>>
  /\ events' = EmptyMap
  /\ objs' = EmptyMap
  /\ maxListeners' = Undefined
  /\ phase' = EmptyMap
  /\ last' = Op("drop")
  /\ invoked' = <<>>
  /\ recent' = <<>>
  /\ UNCHANGED <<connected, nextKey, stack, total>>

\* drop (lines 448-453); with the registry and the key map empty no listener
\* object is reachable any more
Drop ==
  /\ keys' = EmptyMap
  /\ callbacks' = <<>>
  /\ events' = EmptyMap
  /\ objs' = EmptyMap
  /\ phase' = EmptyMap
  /\ last' = Op("drop")
  /\ invoked' = <<>>
  /\ recent' = <<>>
  /\ UNCHANGED <<maxListeners, connected, nextKey, stack, total>>

\* limitConnections (lines 118-126), value an integer
LimitConnections(value) ==
  /\ IF value = 0
     THEN /\ last' = [Op("limitConnections") EXCEPT !.threw = TRUE]
          /\ UNCHANGED maxListeners
     ELSE /\ maxListeners' = ParseInt(value)
          /\ last' = Op("limitConnections")
  /\ invoked' = <<>>
  /\ recent' = <<>>
  /\ UNCHANGED <<callbacks, objs, keys, events, connected, nextKey, phase>>
  /\ UNCHANGED <<stack, total>>

\* setEventMaxListener (lines 128-142), eventName a string, value an integer
SetEventMaxListener(eventName, value) ==
  /\ IF value = 0
     THEN /\ last' = [Op("setEventMaxListener") EXCEPT
                        !.name = eventName, !.threw = TRUE]
          /\ UNCHANGED events
     ELSE /\ last' = [Op("setEventMaxListener") EXCEPT !.name = eventName]
          /\ events' = IF eventName \in DOMAIN events
                       THEN [events EXCEPT ![eventName].maxListeners = ParseInt(value)]
                       ELSE events
  /\ invoked' = <<>>
  /\ recent' = <<>>
  /\ UNCHANGED <<callbacks, objs, keys, maxListeners, connected, nextKey, phase>>
  /\ UNCHANGED <<stack, total>>

\* the state after construction (lines 64-79)
Init ==
  /\ callbacks = <<>>
  /\ objs = EmptyMap
  /\ keys = EmptyMap
  /\ events = EmptyMap
  /\ maxListeners = Undefined
  /\ connected = TRUE
  /\ nextKey = 1
  /\ last = Op("new")
  /\ invoked = <<>>
  /\ recent = <<>>
  /\ phase = EmptyMap
  /\ stack = <<>>
  /\ total = EmptyMap

(***************************************************************************)
(* Specifications.                                                         *)
(***************************************************************************)
\* Spec: the registry operations on listeners of the single name a, given as
\* a scalar or as a one-element array
SpecEvents == {Scalar(sA), List(<<sA>>)}
SpecNames == {sA, sB}

DoRegister == \E kind \in Kinds, ev \in SpecEvents : Register(kind, ev, MaxKeys)
DoEmit == \E e \in SpecNames, p \in Payloads : Emit(e, p, FALSE)
DoReOn == \E key \in 1..MaxKeys : ReOn(key, MaxRegistry)
DoRemove == \E key \in 1..MaxKeys : Remove(key)
DoConnect == Connect(FALSE)
DoDisconnect == Disconnect
DoDrop == Drop

Next ==
  \/ DoRegister
  \/ DoEmit
  \/ DoReOn
  \/ DoRemove
  \/ DoConnect
  \/ DoDisconnect
  \/ DoDrop

Spec == Init /\ [][Next]_vars

\* SpecLife: listeners of the lifecycle names and the lifecycle operations
LifeEvents == {Scalar(sConnect), List(<<sConnect>>), Scalar(sDisconnect)}
LifeNames == {sC, sConnect, sDisconnect}

LifeRegister ==
  \E kind \in Kinds, ev \in LifeEvents : Register(kind, ev, MaxLifeKeys)
LifeEmit == \E e \in LifeNames, p \in Payloads : Emit(e, p, FALSE)
LifeConnect == Connect(FALSE)
LifeDisconnect == Disconnect

NextLife ==
  \/ LifeRegister
  \/ LifeEmit
  \/ LifeConnect
  \/ LifeDisconnect

SpecLife == Init /\ [][NextLife]_vars

\* SpecSeq: one train of two or three names, registered by any of the four
\* register operations on a new hub, and the announces it sees, with the
\* recent announces recorded.  The loop of emit visits each listener on its
\* own (Visit reads and writes only the visited object).
SeqNames == {sA, sB, sC, sAB}

\* the state after `new` and one register call (lines 64-79 and 150-189)
InitSeq ==
  \E kind \in Kinds, p \in SeqPatterns :
    /\ callbacks = <<1>>
    /\ objs = [k \in {1} |-> NewObj(kind, List(p), 1)]
    /\ keys = [k \in {1} |-> 1]
    /\ events = [q \in {Stringified(List(p))} |->
                   [maxListeners |-> Undefined, count |-> 1]]
    /\ maxListeners = Undefined
    /\ connected = TRUE
    /\ nextKey = 2
    /\ last = [Op("register") EXCEPT !.name = Stringified(List(p)), !.key = 1]
    /\ invoked = <<>>
    /\ recent = <<>>
    /\ phase = EmptyMap
    /\ stack = <<>>
    /\ total = EmptyMap

SeqEmit == \E e \in SeqNames, p \in Payloads : Emit(e, p, TRUE)
SeqConnect == Connect(TRUE)
SeqDisconnect == Disconnect

NextSeq ==
  \/ SeqEmit
  \/ SeqConnect
  \/ SeqDisconnect

SpecSeq == InitSeq /\ [][NextSeq]_vars

\* SpecTrain: one train, of three distinct names or of four names with one
\* repeated, registered by any of the four register operations on a new hub,
\* and the announces it sees: its own names, a foreign name, and a name
\* that contains a space.
sX == <<"x">>
sASpaceB == <<"a", " ", "b">>
TrainPatterns == {<<sA, sB, sC>>, <<sA, sB, sA, sC>>}
TrainNames == {sA, sB, sC, sX, sASpaceB}

\* the state after `new` and one register call (lines 64-79 and 150-189)
InitTrain ==
  \E kind \in Kinds, p \in TrainPatterns :
    /\ callbacks = <<1>>
    /\ objs = [k \in {1} |-> NewObj(kind, List(p), 1)]
    /\ keys = [k \in {1} |-> 1]
    /\ events = [q \in {Stringified(List(p))} |->
                   [maxListeners |-> Undefined, count |-> 1]]
    /\ maxListeners = Undefined
    /\ connected = TRUE
    /\ nextKey = 2
    /\ last = [Op("register") EXCEPT !.name = Stringified(List(p)), !.key = 1]
    /\ invoked = <<>>
    /\ recent = <<>>
    /\ phase = EmptyMap
    /\ stack = <<>>
    /\ total = EmptyMap

TrainEmit == \E e \in TrainNames : Emit(e, "p1", TRUE)
TrainConnect == Connect(TRUE)
TrainDisconnect == Disconnect

NextTrain ==
  \/ TrainEmit
  \/ TrainConnect
  \/ TrainDisconnect

SpecTrain == InitTrain /\ [][NextTrain]_vars

\* SpecQuota: registrations against the ceilings
QuotaCalls ==
  {<<"on", Scalar(sA)>>, <<"onceOrderOf", Scalar(sA)>>, <<"once", Scalar(sCount)>>}
QuotaEvents == {c[2] : c \in QuotaCalls}
Ceilings == 1..MaxCeiling
EventCeilings == 1..MaxEventCeiling

QuotaRegister ==
  \E c \in QuotaCalls : Register(c[1], c[2], MaxQuotaKeys)
QuotaRemove == \E key \in 1..MaxQuotaKeys : Remove(key)
QuotaDrop == Drop
QuotaLimitConnections == \E value \in Ceilings \cup {0} : LimitConnections(value)
QuotaSetEventMaxListener ==
  \E e \in {Stringified(ev) : ev \in QuotaEvents}, value \in EventCeilings \cup {0} :
    SetEventMaxListener(e, value)

NextQuota ==
  \/ QuotaRegister
  \/ QuotaRemove
  \/ QuotaDrop
  \/ QuotaLimitConnections
  \/ QuotaSetEventMaxListener

SpecQuota == Init /\ [][NextQuota]_vars

(***************************************************************************)
(* emit step by step (lines 338-400), for callbacks that call the hub      *)
(* back.  A frame is one call of emit in progress: the name and payload,   *)
(* the index i of the loop, and pc, "visit" when the loop is about to      *)
(* evaluate the listener at i and "called" while the callback of that      *)
(* listener is running.  The loop iterates the array this.callbacks held   *)
(* when the loop began; the callbacks modelled here only push to that      *)
(* array (on, line 176) or call emit, so the array every frame iterates is *)
(* the registry itself.  start, seen and fired record the length of the    *)
(* registry when the call began, how many listeners the loop has           *)
(* evaluated, and which listeners it has invoked.                          *)
(***************************************************************************)
Frame(event, args) ==
  [event |-> event, args |-> args, i |-> 1, pc |-> "visit",
   start |-> Len(callbacks), seen |-> 0, fired |-> {}]

Top == stack[Len(stack)]
SetTop(f) == [stack EXCEPT ![Len(stack)] = f]

\* how often the callback of id has been invoked in all
Count(id) == IF id \in DOMAIN total THEN total[id] ELSE 0

\* PreCall without the marking of a one-shot listener
PreCallUnmarked(c, match, event) ==
  StrictReset(c, event)

\* the listener object at the moment its callback is entered: a one-shot
\* listener is marked called and counted before the call (lines 376-378), a
\* persistent one is counted after it (lines 372-374)
PreCall(c, match, event) ==
  LET c1 == StrictReset(c, event)
  IN  IF c1.callType = "once" THEN AfterCall(c1, match) ELSE c1

\* the listener object after its callback has returned: the count and the
\* sink of a persistent listener (lines 373-374), then lines 382-398
PostCall(c, match, event, args) ==
  Progress(IF c.callType = "on" THEN AfterCall(c, match) ELSE c,
           match, event, args)

\* one pass of the loop body for the listener at the index of the top frame
NestedVisit ==
  /\ stack # <<>>
  /\ Top.pc = "visit"
  /\ Top.i <= Len(callbacks)
  /\ LET f == Top
         id == callbacks[f.i]
         c == objs[id]
         match == EventMatch(c, f.event)
         c1 == StrictReset(c, f.event)
         fires == Fires(c1, match)
         pre == PreCall(c, match, f.event)
         seen == [f EXCEPT !.seen = @ + 1,
                           !.fired = IF fires THEN @ \cup {id} ELSE @]
         next == [seen EXCEPT !.i = @ + 1]
         ev == Scalar(pre.cb.name)
     IN  IF ~fires
         THEN /\ objs' = [objs EXCEPT ![id] = Visit(c, f.event, f.args).obj]
              /\ stack' = SetTop(next)
              /\ UNCHANGED <<callbacks, keys, events, nextKey, invoked, total>>
         ELSE /\ Count(id) < MaxCalls
              /\ total' = Put(total, id, Count(id) + 1)
              /\ invoked' = Append(invoked,
                                   [id |-> id, arg |-> CallArg(c1, f.event, f.args)])
              /\ CASE pre.cb.do = "nothing" ->
                        /\ objs' = [objs EXCEPT
                                      ![id] = PostCall(pre, match, f.event, f.args)]
                        /\ stack' = SetTop(next)
                        /\ UNCHANGED <<callbacks, keys, events, nextKey>>
                   [] pre.cb.do = "on" ->
                        /\ ~ValidateThrows(ev)
                        /\ nextKey <= MaxNestedKeys
                        /\ callbacks' = Append(callbacks, nextKey)
                        /\ objs' = Put([objs EXCEPT
                                          ![id] = PostCall(pre, match, f.event, f.args)],
                                       nextKey, NewObj("on", ev, nextKey))
                        /\ keys' = Put(keys, nextKey, nextKey)
                        /\ events' = Counted(ev)
                        /\ nextKey' = nextKey + 1
                        /\ stack' = SetTop(next)
                   [] pre.cb.do = "emit" ->
                        /\ connected
                        /\ Len(stack) < MaxDepth
                        /\ objs' = [objs EXCEPT ![id] = pre]
                        /\ stack' = Append(SetTop([seen EXCEPT !.pc = "called"]),
                                           Frame(pre.cb.name, "p1"))
                        /\ UNCHANGED <<callbacks, keys, events, nextKey>>
  /\ UNCHANGED <<maxListeners, connected, last, recent, phase>>

\* the loop of the top frame is over: emit returns, and if it was called by a
\* callback the loop of the caller goes on behind that callback
NestedReturn ==
  /\ stack # <<>>
  /\ Top.pc = "visit"
  /\ Top.i > Len(callbacks)
  /\ LET rest == SubSeq(stack, 1, Len(stack) - 1)
     IN  IF rest = <<>>
         THEN /\ stack' = <<>>
              /\ UNCHANGED objs
         ELSE LET g == rest[Len(rest)]
                  id == callbacks[g.i]
              IN  /\ objs' = [objs EXCEPT
                                ![id] = PostCall(objs[id], TRUE, g.event, g.args)]
                  /\ stack' = [rest EXCEPT ![Len(rest)] =
                                  [g EXCEPT !.i = @ + 1, !.pc = "visit"]]
  /\ UNCHANGED <<callbacks, keys, events, maxListeners, connected, nextKey,
                 last, invoked, recent, phase, total>>

\* emit called by the owner of the hub (lines 338-350)
NestedEmit ==
  \E e \in {sA, sB} :
    /\ stack = <<>>
    /\ last' = [Op("emit") EXCEPT !.name = e, !.args = "p1"]
    /\ stack' = IF connected THEN <<Frame(e, "p1")>> ELSE <<>>
    /\ invoked' = <<>>
    /\ UNCHANGED <<callbacks, objs, keys, events, maxListeners, connected,
                   nextKey, recent, phase, total>>

\* connect called by the owner of the hub (lines 419-426)
NestedConnect ==
  /\ stack = <<>>
  /\ connected' = TRUE
  /\ last' = [Op("connect") EXCEPT !.name = sConnect, !.args = ConnectInfo]
  /\ stack' = <<Frame(sConnect, ConnectInfo)>>
  /\ invoked' = <<>>
  /\ UNCHANGED <<callbacks, objs, keys, events, maxListeners, nextKey,
                 recent, phase, total>>

NestedDisconnect == stack = <<>> /\ Disconnect
NestedRemove == stack = <<>> /\ \E key \in 1..MaxNestedKeys : Remove(key)
NestedReOn == stack = <<>> /\ \E key \in 1..MaxNestedKeys : ReOn(key, MaxNestedRegistry)

\* SpecNested: one listener of the name a or of the train a, b, registered on
\* a new hub by any of the four register operations with a callback that
\* does nothing, announces a or b, or registers a listener of a or b
NestedEvents == {Scalar(sA), List(<<sA, sB>>)}
NestedCallbacks ==
  {Noop, Announces(sA), Announces(sB), Registers(sA), Registers(sB)}

\* the state after `new` and one register call (lines 64-79 and 150-189)
InitNested ==
  \E kind \in Kinds, ev \in NestedEvents, cb \in NestedCallbacks :
    /\ callbacks = <<1>>
    /\ objs = [k \in {1} |-> [NewObj(kind, ev, 1) EXCEPT !.cb = cb]]
    /\ keys = [k \in {1} |-> 1]
    /\ events = [q \in {Stringified(ev)} |->
                   [maxListeners |-> Undefined, count |-> 1]]
    /\ maxListeners = Undefined
    /\ connected = TRUE
    /\ nextKey = 2
    /\ last = [Op("register") EXCEPT !.name = Stringified(ev), !.key = 1]
    /\ invoked = <<>>
    /\ recent = <<>>
    /\ phase = EmptyMap
    /\ stack = <<>>
    /\ total = EmptyMap

NextNested ==
  \/ NestedEmit
  \/ NestedVisit
  \/ NestedReturn
  \/ NestedConnect
  \/ NestedDisconnect
  \/ NestedRemove
  \/ NestedReOn

SpecNested == InitNested /\ [][NextNested]_vars

(***************************************************************************)
(* Vocabulary of the claims.                                               *)
(***************************************************************************)
\* how often reference id occurs in the registry
Occurrences(id) == Cardinality({i \in 1..Len(callbacks) : callbacks[i] = id})

\* how often the last operation invoked the callback of id
Invocations(id) == Cardinality({j \in 1..Len(invoked) : invoked[j].id = id})

\* the arguments of those invocations
ArgsOf(id) == {invoked[j].arg : j \in {i \in 1..Len(invoked) : invoked[i].id = id}}

Distinct(p) == \A i, j \in 1..Len(p) : i # j => p[i] # p[j]

\* the last n delivered announces, oldest first (n <= Len(recent))
Run(n) == SubSeq(recent, Len(recent) - n + 1, Len(recent))

\* the last Len(names) delivered announces carried these names, in this order
RunOf(names) ==
  /\ Len(recent) >= Len(names)
  /\ \A i \in 1..Len(names) : Run(Len(names))[i].event = names[i]

\* the payload the run announced for pattern name p[i]
RunPayloads(p) == [n \in {p[i] : i \in 1..Len(p)} |->
                     Run(Len(p))[CHOOSE i \in 1..Len(p) : p[i] = n].args]

\* listener id, a train of pattern p and the given order, is in the registry
\* once and had not yet fired, if it is one-shot, when the last Len(p)
\* announces began
LiveTrain(id, p, order) ==
  /\ Len(p) > 1
  /\ Distinct(p)
  /\ Occurrences(id) = 1
  /\ objs[id].isTrainOfEvent
  /\ objs[id].order = order
  /\ objs[id].event = Join(MapTrim(p))
  /\ Len(recent) >= Len(p)
  /\ \/ objs[id].callType = "on"
     \/ ~objs[id].called
     \/ \E i \in 1..Len(p) : id \in Run(Len(p))[i].fired

\* the run of the last Len(p) announces invoked id once, on its last announce
FiredOnLast(id, p) ==
  /\ \A i \in 1..(Len(p) - 1) : id \notin Run(Len(p))[i].fired
  /\ Invocations(id) = 1

Orderings(p) ==
  {q \in [1..Len(p) -> {p[i] : i \in 1..Len(p)}] :
     \A i \in 1..Len(p) : \E j \in 1..Len(p) : q[j] = p[i]}

(***************************************************************************)
(* Claims C1 and C2, under SpecSeq.                                        *)
(***************************************************************************)
\* C1: for a strict train of N > 1 pairwise distinct names that is in the
\* registry once (and, if one-shot, not yet fired), whatever its progress was
\* before: N consecutive delivered announces of its names in declared order
\* invoke its callback exactly once, on the Nth, with a mapping whose keys
\* are exactly the pattern's names, each mapped to the payload the run
\* announced for it.
C1_StrictRunInvokesOnceWithRunPayloads ==
  \A id \in DOMAIN objs, p \in SeqPatterns :
    (LiveTrain(id, p, "strict") /\ RunOf(p)) =>
      /\ FiredOnLast(id, p)
      /\ ArgsOf(id) = {[raw |-> FALSE, val |-> "", map |-> RunPayloads(p)]}

Single(id) == ~objs[id].isTrainOfEvent \/ objs[id].eventCount = 1

\* a persistent listener, or a one-shot listener that has not fired
Ready(id) == objs[id].callType = "on" \/ ~objs[id].called

\* the step is a delivered announce
Delivered == last'.op = "emit" /\ connected

\* the callback argument that is the payload itself
Raw(args) == [raw |-> TRUE, val |-> args, map |-> EmptyMap]

\* C3: on a connected hub, for every listener of one name e that is in the
\* registry once, however it was registered: announce(e, p) invokes its
\* callback exactly once, with p itself, whenever it is persistent or has not
\* fired; an announce of another name does not invoke it.
C3_SingleNameInvokedOnceWithPayload ==
  [][Delivered =>
       \A id \in DOMAIN objs :
         (Occurrences(id) = 1 /\ Single(id)) =>
           IF objs[id].event # last'.name THEN Invocations(id)' = 0
           ELSE Ready(id) =>
                  (Invocations(id)' = 1 /\ ArgsOf(id)' = {Raw(last'.args)})]_vars

\* C4: a listener whose key was given to remove, and not to reOn since, is
\* not invoked by any later operation.
C4_RemovedNeverInvoked ==
  \A key \in DOMAIN phase :
    phase[key] = "removed" => Invocations(keys[key]) = 0

\* C5: a listener of one scalar name e whose key was given to remove and then
\* to reOn is invoked exactly once by announce(e, p), with p, whenever it is
\* persistent or has not fired, as a listener that was never removed is; and
\* reOn leaves the listener object, its key and its progress as they were.
C5_ResumedInvokedAsBefore ==
  [][/\ Delivered =>
          \A key \in DOMAIN phase :
            (/\ phase[key] = "resumed"
             /\ ~objs[keys[key]].isTrainOfEvent
             /\ objs[keys[key]].event = last'.name
             /\ Ready(keys[key])) =>
              /\ Invocations(keys[key])' = 1
              /\ ArgsOf(keys[key])' = {Raw(last'.args)}
     /\ last'.op = "reOn" => (objs' = objs /\ keys' = keys)]_vars

(***************************************************************************)
(* Claims C6 and C9, under SpecLife.                                       *)
(***************************************************************************)
\* the listeners in the registry that are subscribed to the single name e
\* and are persistent or have not fired
Subscribed(e) ==
  {id \in DOMAIN objs :
     Occurrences(id) >= 1 /\ Single(id) /\ objs[id].event = e /\ Ready(id)}

\* C6: an announce on a disconnected hub invokes no callback and changes no
\* listener; connect() sets the hub connected and itself invokes every
\* listener subscribed to the name connect.
C6_DisconnectedDiscardsConnectAnnounces ==
  [][/\ (last'.op = "emit" /\ ~connected) =>
          (invoked' = <<>> /\ objs' = objs /\ callbacks' = callbacks)
     /\ last'.op = "connect" =>
          /\ connected'
          /\ \A id \in Subscribed(sConnect) : Invocations(id)' >= 1]_vars

\* C9: disconnect() on a connected hub clears the flag and invokes every
\* listener registered with the scalar name disconnect exactly once, with
\* {connectionId, connections, connected}; on a disconnected hub it invokes
\* nothing and changes nothing.
C9_DisconnectAnnounces ==
  [][last'.op = "disconnect" =>
       IF connected
       THEN /\ ~connected'
            /\ \A id \in Subscribed(sDisconnect) :
                 (~objs[id].isTrainOfEvent /\ Occurrences(id) = 1) =>
                   /\ Invocations(id)' = 1
                   /\ ArgsOf(id)' = {Raw(DisconnectInfo)}
       ELSE invoked' = <<>> /\ UNCHANGED hub]_vars

(***************************************************************************)
(* Claims C7, C8 and C10, under SpecQuota.                                 *)
(***************************************************************************)
\* C7: a register call throws exactly when a global ceiling is set and the
\* registry already holds that many references or more; a call that throws
\* leaves the registry, the key map, the quota table and the listener
\* objects unchanged and issues no key; a call that does not throw appends
\* the new listener to the registry and returns its key.
C7_GlobalCeiling ==
  [][last'.op = "register" =>
       /\ last'.threw <=>
            (maxListeners # Undefined /\ Len(callbacks) >= maxListeners)
       /\ last'.threw =>
            (UNCHANGED <<callbacks, keys, events, objs, nextKey>> /\ last'.key = 0)
       /\ ~last'.threw =>
            /\ last'.key \in DOMAIN keys' \ DOMAIN keys
            /\ callbacks' = Append(callbacks, keys'[last'.key])]_vars

\* with the ceiling 3 and three listeners in the registry, the fourth
\* register call has thrown
C7_Witness ==
  /\ last.op = "register"
  /\ last.threw
  /\ maxListeners = 3
  /\ Len(callbacks) = 3
  /\ nextKey = 4

\* the quota count and the ceiling of pattern string p
QuotaCount(p) == IF p \in DOMAIN events THEN events[p].count ELSE 0
EventCeiling(p) == IF p \in DOMAIN events THEN events[p].maxListeners ELSE Undefined

\* C8: a register call for a pattern whose ceiling is set and whose quota
\* count has reached the ceiling throws and registers nothing.
C8_EventCeiling ==
  [][(/\ last'.op = "register"
      /\ EventCeiling(last'.name) # Undefined
      /\ QuotaCount(last'.name) >= EventCeiling(last'.name)) =>
       (last'.threw /\ UNCHANGED <<callbacks, keys, events>>)]_vars

\* C10 as stated: drop() empties the registry, the key map and the quota
\* table and leaves the global ceiling and every per-pattern ceiling as it was.
C10_DropKeepsEveryCeiling ==
  [][last'.op = "drop" =>
       /\ callbacks' = <<>> /\ keys' = EmptyMap /\ events' = EmptyMap
       /\ maxListeners' = maxListeners
       /\ \A p \in DOMAIN events : EventCeiling(p)' = EventCeiling(p)]_vars

\* C10 as amended: drop() empties the registry, the key map and the quota
\* table and leaves the global ceiling as it was; the per-pattern ceilings,
\* which the quota table holds, are gone with it.
C10_DropKeepsGlobalCeiling ==
  [][last'.op = "drop" =>
       /\ callbacks' = <<>> /\ keys' = EmptyMap /\ events' = EmptyMap
       /\ maxListeners' = maxListeners
       /\ \A p \in DOMAIN events : EventCeiling(p)' = Undefined]_vars

\* drop() has run on a hub with a global ceiling that had issued a key
C10_Witness ==
  /\ last.op = "drop"
  /\ nextKey > 1
  /\ maxListeners # Undefined
  /\ callbacks = <<>>

(***************************************************************************)
(* Claim C11, under SpecLife.                                              *)
(***************************************************************************)
\* C11: a register call made while the hub is disconnected returns no key
\* and adds nothing to the registry, the key map or the quota table.
C11_DisconnectedRegisterIsNoOp ==
  [][(last'.op = "register" /\ ~connected) =>
       (last'.key = 0 /\ UNCHANGED <<callbacks, keys, events>>)]_vars

(***************************************************************************)
(* Claims C16, C18 and C19, under Spec.  Keys are issued in increasing     *)
(* order, so a listener registered earlier has the smaller reference.      *)
(***************************************************************************)
\* C16: of two listeners that are each in the registry once and that the
\* same announce both invokes, the one registered first is invoked first.
C16_InvokedInRegistrationOrder ==
  \A i, j \in 1..Len(invoked) :
    (/\ i < j
     /\ Occurrences(invoked[i].id) = 1
     /\ Occurrences(invoked[j].id) = 1) => invoked[i].id < invoked[j].id

\* C18: no listener occurs in the registry more than once.
C18_RegistryEntriesDistinct ==
  \A i, j \in 1..Len(callbacks) : i # j => callbacks[i] # callbacks[j]

\* C19: a listener of one scalar name e whose key was given to reOn while it
\* was in the registry is still invoked exactly once by announce(e, p),
\* whenever it is persistent or has not fired.
C19_ReOnIdempotent ==
  [][Delivered =>
       \A key \in DOMAIN phase :
         (/\ phase[key] = "added again"
          /\ ~objs[keys[key]].isTrainOfEvent
          /\ objs[keys[key]].event = last'.name
          /\ Ready(keys[key])) => Invocations(keys[key])' = 1]_vars

(***************************************************************************)
(* Claims C13, C14 and C17, under SpecTrain.                               *)
(***************************************************************************)
\* the names of pattern p
NamesOf(p) == {p[i] : i \in 1..Len(p)}

\* listener id is a train of pattern p and the given order, once in the
\* registry
TrainOf(id, p, order) ==
  /\ Occurrences(id) = 1
  /\ objs[id].isTrainOfEvent
  /\ objs[id].order = order
  /\ objs[id].event = Join(MapTrim(p))

\* C13: a strict train of N > 1 names is invoked by an announce only if that
\* announce and the N-1 delivered announces before it carried exactly the
\* pattern's names in declared order (for the patterns whose runs the record
\* of recent announces can hold).
C13_StrictInvokedOnlyByExactRun ==
  \A id \in DOMAIN objs, p \in TrainPatterns :
    (/\ Len(p) <= RunLength
     /\ TrainOf(id, p, "strict")
     /\ Invocations(id) >= 1) => RunOf(p)

\* C14: a loose train is not invoked while, since the last delivered announce
\* of a name outside its pattern, some name of the pattern has not been
\* announced again.
C14_LooseForeignNameInvalidates ==
  \A id \in DOMAIN objs, p \in TrainPatterns :
    (TrainOf(id, p, "loose") /\ Invocations(id) >= 1) =>
      \A i \in 1..Len(recent) :
        recent[i].event \notin NamesOf(p) =>
          NamesOf(p) \subseteq {recent[j].event : j \in (i + 1)..Len(recent)}

\* the strings made of at most Len(p) names of p, joined by spaces
Selections(p) ==
  {Join(q) : q \in UNION {[1..n -> NamesOf(p)] : n \in 0..Len(p)}}

\* the proper prefixes of p, joined by spaces
ProperPrefixes(p) == {Join(SubSeq(p, 1, k)) : k \in 0..(Len(p) - 1)}

\* C17: between announces the progress of a strict train is a proper prefix
\* of its pattern, and the progress of a loose train is made of names of its
\* pattern only.
C17_ProgressConsistentWithPattern ==
  \A id \in DOMAIN objs, p \in TrainPatterns :
    /\ TrainOf(id, p, "strict") => objs[id].registered \in ProperPrefixes(p)
    /\ TrainOf(id, p, "loose") => objs[id].registered \in Selections(p)

(***************************************************************************)
(* Claims C12, C15 and C20, under SpecNested.                              *)
(***************************************************************************)
\* C12: the callback of a one-shot listener is invoked at most once in all,
\* whatever is announced, removed, resumed, disconnected or connected, and
\* whatever its own callback announces while it runs.
C12_OneShotInvokedAtMostOnce ==
  \A id \in DOMAIN objs : objs[id].callType = "once" => Count(id) <= 1

\* a one-shot listener of one scalar name whose callback announces that name
\* is running its callback, and the loop of that nested announce has
\* evaluated the listener again
C12_Witness ==
  /\ Len(stack) = 2
  /\ stack[1].pc = "called"
  /\ stack[2].seen >= 1
  /\ LET c == objs[callbacks[stack[1].i]]
     IN  /\ c.callType = "once"
         /\ ~c.isTrainOfEvent
         /\ c.cb = Announces(c.event)
         /\ c.event = stack[2].event
         /\ Count(callbacks[stack[1].i]) = 1

\* C15: a call of emit evaluates at most as many listeners as the registry
\* held when the call began.
C15_VisitsOnlyListenersPresentAtStart ==
  \A k \in 1..Len(stack) : stack[k].seen <= stack[k].start

\* C20: while the callback of a persistent train runs, an announce that
\* callback makes does not invoke the train again.
C20_NestedAnnounceDoesNotRefire ==
  \A k \in 1..(Len(stack) - 1) :
    LET id == callbacks[stack[k].i]
    IN  (/\ stack[k].pc = "called"
         /\ objs[id].isTrainOfEvent
         /\ objs[id].callType = "on") => id \notin stack[k + 1].fired

=============================================================================
